---- MODULE Spec2Model ----
(***************************************************************************)
(* Identity reconciliation service (POST /identify).                       *)
(*                                                                         *)
(* The store is the Contact table; a call of the controller `identify`     *)
(* validates the body, then runs `identifyContact`, whose every awaited    *)
(* store operation is one step of the calling process.  Rows are never     *)
(* removed; ids are assigned in insertion order and createdAt is taken     *)
(* from a clock that advances with every insert.                           *)
(***************************************************************************)
EXTENDS Integers, Sequences, FiniteSets, TLC

\* ------------------------------------------------------------------ bounds
\* Largest number of rows the store may hold (an insert is taken only while
\* the table has room for it).
MaxContacts == 3

\* ------------------------------------------------------------------ values
\* SQL NULL / JS null for the string columns and for request fields.
NULL == "NULL"
\* A request field that is absent from the JSON body (JS undefined).
ABSENT == "ABSENT"
\* NULL for linkedId (ids start at 1) and for deletedAt.
NullId == 0
NullTime == 0
\* The deletedAt of a soft-deleted row.
DeletedTime == 1

Emails == {"a@x.io", "b@x.io"}
Phones == {"111", "222"}
\* Strings that are not syntactically e-mail addresses.
BadEmails == {"not-an-email"}
\* Numbers a client may send as phoneNumber.
PhoneNumbersNumeric == {111, 0}

Procs == {"a", "b"}

\* (mutant) `v !== undefined` in place of truthiness.
TruthyDefined(v) == v # ABSENT

\* JS truthiness of a string-or-null value: null, undefined and "" are falsy.
Truthy(v) == v # NULL /\ v # ABSENT /\ v # ""

\* `v || null`
OrNull(v) == IF Truthy(v) THEN v ELSE NULL

\* ------------------------------------------------------------------ store
Rows(store) == {store[i] : i \in 1..Len(store)}

\* (mutant) the deletedAt: null condition is left out of every query.
NotDeletedUnfiltered(c) == TRUE

NotDeleted(c) == c.deletedAt = NullTime

\* (mutant) orderBy: { createdAt: "desc" }
RECURSIVE OrderByCreatedAtDesc(_)
OrderByCreatedAtDesc(S) ==
    IF S = {} THEN <<>>
    ELSE LET c == CHOOSE x \in S : \A y \in S : x.createdAt >= y.createdAt
         IN  <<c>> \o OrderByCreatedAtDesc(S \ {c})

\* orderBy: { createdAt: "asc" }
RECURSIVE OrderByCreatedAt(_)
OrderByCreatedAt(S) ==
    IF S = {} THEN <<>>
    ELSE LET c == CHOOSE x \in S : \A y \in S : x.createdAt <= y.createdAt
         IN  <<c>> \o OrderByCreatedAt(S \ {c})

\* (mutant) the phoneNumber condition is never pushed.
MatchingContactsEmailOnly(store, email, phoneNumber) ==
    {c \in Rows(store) : NotDeleted(c) /\ Truthy(email) /\ c.email = email}

\* where: { OR: orConditions, deletedAt: null }; a condition is pushed only
\* for a truthy field.
MatchingContacts(store, email, phoneNumber) ==
    {c \in Rows(store) :
        /\ NotDeleted(c)
        /\ \/ (Truthy(email) /\ c.email = email)
           \/ (Truthy(phoneNumber) /\ c.phoneNumber = phoneNumber)}

\* The primaryIds set built from the matched rows.
PrimaryIdsOf(matching) ==
    {c.id : c \in {m \in matching : m.linkPrecedence = "primary"}}
    \cup {c.linkedId : c \in {m \in matching :
                m.linkPrecedence # "primary" /\ m.linkedId # NullId}}

\* (mutant) the primaries fetched newest first.
PrimaryContactsOfNewestFirst(store, ids) ==
    OrderByCreatedAtDesc({c \in Rows(store) : c.id \in ids /\ NotDeleted(c)})

\* findMany({ where: { id: { in: ids }, deletedAt: null }, orderBy createdAt })
PrimaryContactsOf(store, ids) ==
    OrderByCreatedAt({c \in Rows(store) : c.id \in ids /\ NotDeleted(c)})

\* (mutant) where: { id, deletedAt: null }
LinkedContactsPrimaryOnly(store, id) ==
    {c \in Rows(store) : c.id = id /\ NotDeleted(c)}

\* where: { OR: [{ id }, { linkedId: id }], deletedAt: null }
LinkedContacts(store, id) ==
    {c \in Rows(store) : (c.id = id \/ c.linkedId = id) /\ NotDeleted(c)}

\* (mutant) updateMany({ where: { linkPrecedence: "primary", id: { not } } })
DemoteEveryOther(store, id, primaryId) ==
    [i \in DOMAIN store |->
        IF store[i].id # primaryId /\ store[i].linkPrecedence = "primary"
        THEN [store[i] EXCEPT !.linkedId = primaryId,
                              !.linkPrecedence = "secondary"]
        ELSE store[i]]

\* (mutant) data: { linkedId } alone.
DemoteLinkOnly(store, id, primaryId) ==
    [i \in DOMAIN store |->
        IF store[i].id = id
        THEN [store[i] EXCEPT !.linkedId = primaryId]
        ELSE store[i]]

\* tx.contact.update({ where: { id }, data: { linkedId, linkPrecedence } })
Demote(store, id, primaryId) ==
    [i \in DOMAIN store |->
        IF store[i].id = id
        THEN [store[i] EXCEPT !.linkedId = primaryId,
                              !.linkPrecedence = "secondary"]
        ELSE store[i]]

\* (mutant) the secondaries of a demoted primary are left as they are.
RelinkNothing(store, id, primaryId) == store

\* (mutant) updateMany that also writes linkPrecedence: "primary".
RelinkAsPrimary(store, id, primaryId) ==
    [i \in DOMAIN store |->
        IF store[i].linkedId = id /\ NotDeleted(store[i])
        THEN [store[i] EXCEPT !.linkedId = primaryId,
                              !.linkPrecedence = "primary"]
        ELSE store[i]]

\* tx.contact.updateMany({ where: { linkedId: id, deletedAt: null }, ... })
Relink(store, id, primaryId) ==
    [i \in DOMAIN store |->
        IF store[i].linkedId = id /\ NotDeleted(store[i])
        THEN [store[i] EXCEPT !.linkedId = primaryId]
        ELSE store[i]]

\* The statements of the merge loop, in program order: for every other
\* primary an update followed by an updateMany.
RECURSIVE MergeOps(_)
MergeOps(others) ==
    IF others = <<>> THEN <<>>
    ELSE << [op |-> "update", id |-> Head(others).id],
            [op |-> "updateMany", id |-> Head(others).id] >>
         \o MergeOps(Tail(others))

\* The store after the first k statements of ops.
RECURSIVE ApplyOps(_, _, _, _)
ApplyOps(store, ops, k, primaryId) ==
    IF k = 0 THEN store
    ELSE LET s == ApplyOps(store, ops, k - 1, primaryId)
         IN  IF ops[k].op = "update"
             THEN Demote(s, ops[k].id, primaryId)
             ELSE Relink(s, ops[k].id, primaryId)

\* The same statements run directly against the store, outside a
\* transaction: what has been written stays written.
TransactionNoRollback(store, ops, k, primaryId) ==
    ApplyOps(store, ops, IF k > Len(ops) THEN Len(ops) ELSE k, primaryId)

\* prisma.$transaction(async (tx) => { ... }): the store after k steps of
\* the transaction went through, its steps being the statements of the
\* callback and then the commit.  Committed: the combined effect of all
\* statements; a failure before that: rollback, nothing written.
Transaction(store, ops, k, primaryId) ==
    IF k = Len(ops) + 1 THEN ApplyOps(store, ops, Len(ops), primaryId)
    ELSE store

\* prisma.contact.create: id and createdAt are assigned by the store.
NewContact(store, clock, email, phoneNumber, linkedId, linkPrecedence) ==
    [id |-> Len(store) + 1,
     email |-> email,
     phoneNumber |-> phoneNumber,
     linkedId |-> linkedId,
     linkPrecedence |-> linkPrecedence,
     createdAt |-> clock,
     deletedAt |-> NullTime]

\* ------------------------------------------------------- new-information
ExistingEmails(group) == {c.email : c \in {g \in group : g.email # NULL}}
ExistingPhones(group) ==
    {c.phoneNumber : c \in {g \in group : g.phoneNumber # NULL}}

\* (mutant) && in place of ||
HasNewInfoBoth(group, email, phoneNumber) ==
    email \notin ExistingEmails(group)
    /\ phoneNumber \notin ExistingPhones(group)

HasNewInfo(group, email, phoneNumber) ==
    email \notin ExistingEmails(group)
    \/ phoneNumber \notin ExistingPhones(group)

\* (mutant) find((c) => c.email === email)
ExactMatchEmailOnly(group, email, phoneNumber) ==
    \E c \in group : c.email = email

ExactMatch(group, email, phoneNumber) ==
    \E c \in group : c.email = email /\ c.phoneNumber = phoneNumber

\* (mutant) if (!exactMatch)
ShouldCreateUnlessExact(group, email, phoneNumber) ==
    ~ExactMatch(group, email, phoneNumber)

\* (mutant) the row is created whatever the group holds.
ShouldCreateAlways(group, email, phoneNumber) == TRUE

\* if (hasNewInfo && !exactMatch)
ShouldCreateSecondary(group, email, phoneNumber) ==
    HasNewInfo(group, email, phoneNumber)
    /\ ~ExactMatch(group, email, phoneNumber)

\* --------------------------------------------------------------- response
\* (mutant) the value is never found in the list.
IncludesNever(seq, v) == FALSE

Includes(seq, v) == \E i \in 1..Len(seq) : seq[i] = v

\* The loop over the secondaries in formatResponse, k rows done.
\* (mutant) the loop pushes no email.
PushEmailsNone(acc, secondaries, k) == acc

RECURSIVE PushEmails(_, _, _)
PushEmails(acc, secondaries, k) ==
    IF k = 0 THEN acc
    ELSE LET a == PushEmails(acc, secondaries, k - 1)
             e == secondaries[k].email
         IN  IF Truthy(e) /\ ~Includes(a, e) THEN Append(a, e) ELSE a

RECURSIVE PushPhones(_, _, _)
PushPhones(acc, secondaries, k) ==
    IF k = 0 THEN acc
    ELSE LET a == PushPhones(acc, secondaries, k - 1)
             ph == secondaries[k].phoneNumber
         IN  IF Truthy(ph) /\ ~Includes(a, ph) THEN Append(a, ph) ELSE a

\* (mutant) the primary's own email and phone are pushed after the loop.
formatResponsePrimaryLast(primary, secondaries) ==
    LET es == PushEmails(<<>>, secondaries, Len(secondaries))
        ps == PushPhones(<<>>, secondaries, Len(secondaries))
    IN  [primaryContatctId |-> primary.id,
         emails |-> IF Truthy(primary.email) /\ ~Includes(es, primary.email)
                    THEN Append(es, primary.email) ELSE es,
         phoneNumbers |-> IF Truthy(primary.phoneNumber)
                             /\ ~Includes(ps, primary.phoneNumber)
                          THEN Append(ps, primary.phoneNumber) ELSE ps,
         secondaryContactIds |->
            [i \in 1..Len(secondaries) |-> secondaries[i].id]]

\* (mutant) the primary's own email and phone are not pushed.
formatResponseSecondariesOnly(primary, secondaries) ==
    [primaryContatctId |-> primary.id,
     emails |-> PushEmails(<<>>, secondaries, Len(secondaries)),
     phoneNumbers |-> PushPhones(<<>>, secondaries, Len(secondaries)),
     secondaryContactIds |-> [i \in 1..Len(secondaries) |-> secondaries[i].id]]

formatResponse(primary, secondaries) ==
    [primaryContatctId |-> primary.id,
     emails |-> PushEmails(IF Truthy(primary.email) THEN <<primary.email>>
                           ELSE <<>>, secondaries, Len(secondaries)),
     phoneNumbers |-> PushPhones(IF Truthy(primary.phoneNumber)
                                 THEN <<primary.phoneNumber>> ELSE <<>>,
                                 secondaries, Len(secondaries)),
     secondaryContactIds |-> [i \in 1..Len(secondaries) |-> secondaries[i].id]]

\* (mutant) allContacts, unfiltered.
SecondariesUnfiltered(store, primaryId) ==
    OrderByCreatedAt(LinkedContacts(store, primaryId))

\* allContacts.filter((c) => c.id !== truePrimary.id)
Secondaries(store, primaryId) ==
    SelectSeq(OrderByCreatedAt(LinkedContacts(store, primaryId)),
              LAMBDA c : c.id # primaryId)

\* ------------------------------------------------------------- HTTP layer
\* A phoneNumber of the JSON body: a string, a number, null or absent.
PhoneStr(s) == [t |-> "string", s |-> s, n |-> 0]
PhoneNum(n) == [t |-> "number", s |-> "", n |-> n]
PhoneNull == [t |-> "null", s |-> "", n |-> 0]
PhoneAbsent == [t |-> "absent", s |-> "", n |-> 0]

\* z.string().email(...): the strings accepted as e-mail addresses.
IsEmail(s) == s \in Emails

\* (mutant) a schema that keeps strings only: a number parses to null.
PhoneToStringDropsNumbers(ph) ==
    CASE ph.t = "string" -> ph.s
      [] ph.t = "number" -> NULL
      [] ph.t = "null" -> NULL
      [] OTHER -> ABSENT

\* .transform((val) => val !== null && val !== undefined ? String(val) : null)
\* under .nullable().optional(): null and undefined pass through untouched.
PhoneToString(ph) ==
    CASE ph.t = "string" -> ph.s
      [] ph.t = "number" -> ToString(ph.n)
      [] ph.t = "null" -> NULL
      [] OTHER -> ABSENT

RECURSIVE Join(_)
Join(msgs) ==
    IF msgs = <<>> THEN ""
    ELSE IF Len(msgs) = 1 THEN msgs[1]
    ELSE msgs[1] \o ", " \o Join(Tail(msgs))

\* (mutant) the schema without its .refine(...)
identifySchemaNoRefine(body) ==
    LET email == body.email
        issues == IF email = ABSENT \/ email = NULL \/ IsEmail(email) THEN <<>>
                  ELSE <<"Invalid email format">>
    IN  [success |-> issues = <<>>,
         data |-> [email |-> email,
                   phoneNumber |-> PhoneToString(body.phoneNumber)],
         issues |-> issues]

\* identifySchema.safeParse(body): the parsed data and the issues found.
identifySchema(body) ==
    LET email == body.email
        phoneNumber == PhoneToString(body.phoneNumber)
        emailIssues ==
            IF email = ABSENT \/ email = NULL \/ IsEmail(email) THEN <<>>
            ELSE <<"Invalid email format">>
        refineIssues ==
            IF Truthy(email) \/ Truthy(phoneNumber) THEN <<>>
            ELSE <<"At least one of email or phoneNumber must be provided">>
        issues == emailIssues \o refineIssues
    IN  [success |-> issues = <<>>,
         data |-> [email |-> email, phoneNumber |-> phoneNumber],
         issues |-> issues]

\* Errors: AppError carries a status code; anything else is unexpected.
AppError(message, statusCode) ==
    [isAppError |-> TRUE, statusCode |-> statusCode, message |-> message]
ValidationError(message) == AppError(message, 400)
NotFoundError(message) == AppError(message, 404)
Error(message) ==
    [isAppError |-> FALSE, statusCode |-> 0, message |-> message]

NoContact ==
    [primaryContatctId |-> NullId, emails |-> <<>>, phoneNumbers |-> <<>>,
     secondaryContactIds |-> <<>>]

\* No response yet.
NoResponse ==
    [status |-> 0, success |-> ABSENT, error |-> ABSENT, contact |-> NoContact]

\* res.status(200).json(result)
Ok(contact) ==
    [status |-> 200, success |-> ABSENT, error |-> ABSENT, contact |-> contact]

\* (mutant) the error's message is sent whatever the environment.
errorHandlerVerbose(err, production) ==
    IF err.isAppError
    THEN [status |-> err.statusCode, success |-> "false",
          error |-> err.message, contact |-> NoContact]
    ELSE [status |-> 500, success |-> "false",
          error |-> IF err.message # "" THEN err.message
                    ELSE "Internal server error",
          contact |-> NoContact]

errorHandler(err, production) ==
    IF err.isAppError
    THEN [status |-> err.statusCode, success |-> "false",
          error |-> err.message, contact |-> NoContact]
    ELSE [status |-> 500, success |-> "false",
          error |-> IF production THEN "Internal server error"
                    ELSE IF err.message # "" THEN err.message
                    ELSE "Internal server error",
          contact |-> NoContact]

\* The message of an error thrown by a failing store operation.
StorageError == Error("Can't reach database server")
\* `truePrimary.id` with truePrimary undefined.
TypeError == Error("Cannot read properties of undefined (reading 'id')")

\* ------------------------------------------------------------------ state
VARIABLES
    contacts,         \* the Contact table, in insertion (id) order
    clock,            \* the store's now()
    isProduction,     \* config.isProduction
    pc,               \* per call: the store operation it is about to await
    req,              \* per call: the { email, phoneNumber } given to the service
    primaryIds,       \* per call: the set built from the matched rows
    primaryContacts,  \* per call: the fetched primaries (head: truePrimary)
    call,             \* observed: body, request, response, fault and error of
                      \*   the latest call
    prev,             \* observed: request, response and fault of the call
                      \*   before it, and the table it was received on
    pre,              \* observed: the table when a call was last received
                      \*   while no other call was running
    received,         \* observed: the calls received since then
    merged            \* observed: per call, the ids of the primaries whose
                      \*   groups its committed merge joined

vars == <<contacts, clock, isProduction, pc, req, primaryIds, primaryContacts,
          call, prev, pre, received, merged>>

NoRequest == [email |-> NULL, phoneNumber |-> NULL]
NoBody == [email |-> ABSENT, phoneNumber |-> PhoneAbsent]
NoFault == [step |-> "none", k |-> 0]
\* No error was passed to the error handler.
NoError == [isAppError |-> FALSE, statusCode |-> 0, message |-> ABSENT]
NoCall == [body |-> NoBody, req |-> NoRequest, resp |-> NoResponse,
           fault |-> NoFault, err |-> NoError]
NoPrev == [req |-> NoRequest, resp |-> NoResponse, fault |-> NoFault,
           store |-> <<>>]

truePrimary(p) == primaryContacts[p][1]
others(p) == Tail(primaryContacts[p])

Idle == \A p \in Procs : pc[p] = "idle"

\* No call has been received yet.
InitCalls ==
    /\ pc = [p \in Procs |-> "idle"]
    /\ req = [p \in Procs |-> NoRequest]
    /\ primaryIds = [p \in Procs |-> {}]
    /\ primaryContacts = [p \in Procs |-> <<>>]
    /\ call = NoCall
    /\ prev = NoPrev
    /\ pre = <<>>
    /\ received = 0
    /\ merged = [p \in Procs |-> {}]

\* The table is empty.
InitStore ==
    /\ contacts = <<>>
    /\ clock = 1
    /\ InitCalls

\* The rows a table of n rows may hold at position i: any email and phone
\* but not both null, primary or secondary of another row, soft-deleted or
\* not; createdAt follows the id.
AnyRows(n, i) ==
    {c \in [id : {i},
            email : Emails \cup {NULL},
            phoneNumber : Phones \cup {NULL},
            linkedId : (0..n) \ {i},
            linkPrecedence : {"primary", "secondary"},
            createdAt : {i},
            deletedAt : {NullTime, DeletedTime}] :
        /\ c.email # NULL \/ c.phoneNumber # NULL
        /\ (c.linkPrecedence = "primary") <=> (c.linkedId = NullId)}

\* The tables whose first i rows are rows of a table of n rows.
RECURSIVE AnyTables(_, _)
AnyTables(n, i) ==
    IF i = 0 THEN {<<>>}
    ELSE {Append(st, c) : st \in AnyTables(n, i - 1), c \in AnyRows(n, i)}

\* The tables of n rows with a flat two-level hierarchy: every secondary's
\* linkedId is the id of a primary.  Groups may share emails and phones.
AnyStores(n) ==
    {st \in AnyTables(n, n) :
        \A i \in 1..n :
            st[i].linkedId # NullId =>
                st[st[i].linkedId].linkPrecedence = "primary"}

\* The table is any flat one, left by earlier calls and by soft deletes.
InitAny ==
    /\ \E n \in 0..MaxContacts : contacts \in AnyStores(n)
    /\ clock = MaxContacts + 1
    /\ InitCalls
    /\ isProduction = FALSE

\* NODE_ENV unset: development.
Init == InitStore /\ isProduction = FALSE

InitHttp == InitStore /\ isProduction \in BOOLEAN

\* ---------------------------------------------------------------- actions
\* What is observed of single calls, per specification: nothing ("none"),
\* the latest call ("call"), also request, response and fault of the call
\* before it ("full"), or the latest call and, when it repeats the request
\* of a failed call right before it, that call with the table it was
\* received on ("retry").
Observed(obs) == obs # "none"

\* (mutant) CASE 3 is entered whatever was supplied.
AfterMergeAlways(p) == "checkNewInfo"

\* (mutant) the call starts over after the merge.
AfterMergeStartOver(p) == "findMatching"

\* The step after the merge: `if (email && phoneNumber)`.
AfterMerge(p) ==
    IF Truthy(req[p].email) /\ Truthy(req[p].phoneNumber)
    THEN "checkNewInfo" ELSE "finalFetch"

\* The call of p ends with response r, after a fault f and an error e if
\* any; its locals die with it.
RespondWith(p, r, f, e, obs) ==
    /\ pc' = [pc EXCEPT ![p] = "idle"]
    /\ req' = [req EXCEPT ![p] = NoRequest]
    /\ primaryIds' = [primaryIds EXCEPT ![p] = {}]
    /\ primaryContacts' = [primaryContacts EXCEPT ![p] = <<>>]
    /\ IF Observed(obs)
       THEN call' = [call EXCEPT !.resp = r, !.fault = f, !.err = e]
       ELSE UNCHANGED call

\* res.status(200).json(result)
Respond(p, r, f, obs) == RespondWith(p, r, f, NoError, obs)

\* catch (error) { next(error) }: the error handler answers.
Fail(p, err, f, obs) ==
    RespondWith(p, errorHandler(err, isProduction), f, err, obs)

\* The request the controller gives to identifyContact for body b:
\* { email: email || null, phoneNumber: phoneNumber ? String(phoneNumber) : null }
Normalised(b) ==
    [email |-> OrNull(identifySchema(b).data.email),
     phoneNumber |-> OrNull(identifySchema(b).data.phoneNumber)]

\* controller identify, up to the first awaited store operation of
\* identifyContact: validation, normalisation, the orConditions guard.
Identify(p, b, obs) ==
    /\ pc[p] = "idle"
    /\ IF Idle
       THEN /\ pre' = contacts
            /\ received' = 1
            /\ merged' = [q \in Procs |-> {}]
       ELSE /\ received' = received + 1
            /\ merged' = [merged EXCEPT ![p] = {}]
            /\ UNCHANGED pre
    /\ IF obs = "full"
       THEN prev' = [req |-> call.req, resp |-> call.resp,
                     fault |-> call.fault, store |-> <<>>]
       ELSE IF obs = "retry"
       THEN prev' = IF call.fault # NoFault /\ call.req = Normalised(b)
                    THEN [req |-> call.req, resp |-> call.resp,
                          fault |-> call.fault, store |-> pre]
                    ELSE NoPrev
       ELSE UNCHANGED prev
    /\ LET parsed == identifySchema(b)
           r == Normalised(b)
           started == [body |-> b, req |-> r, resp |-> NoResponse,
                       fault |-> NoFault, err |-> NoError]
           invalid == ValidationError(Join(parsed.issues))
           noConditions ==
                Error("At least one of email or phoneNumber must be provided")
       IN  IF ~parsed.success
           THEN /\ pc' = pc /\ req' = req
                /\ IF Observed(obs)
                   THEN call' = [started EXCEPT
                            !.req = NoRequest,
                            !.resp = errorHandler(invalid, isProduction),
                            !.err = invalid]
                   ELSE UNCHANGED call
           ELSE IF ~Truthy(r.email) /\ ~Truthy(r.phoneNumber)
           THEN /\ pc' = pc /\ req' = req
                /\ IF Observed(obs)
                   THEN call' = [started EXCEPT
                            !.resp = errorHandler(noConditions, isProduction),
                            !.err = noConditions]
                   ELSE UNCHANGED call
           ELSE /\ req' = [req EXCEPT ![p] = r]
                /\ pc' = [pc EXCEPT ![p] = "findMatching"]
                /\ IF Observed(obs) THEN call' = started ELSE UNCHANGED call
    /\ UNCHANGED <<contacts, clock, isProduction, primaryIds, primaryContacts>>

\* matchingContacts = findMany(...), then the primaryIds loop.
FindMatching(p) ==
    /\ pc[p] = "findMatching"
    /\ LET m == MatchingContacts(contacts, req[p].email, req[p].phoneNumber)
       IN  IF m = {}
           THEN /\ pc' = [pc EXCEPT ![p] = "createPrimary"]
                /\ UNCHANGED primaryIds
           ELSE /\ pc' = [pc EXCEPT ![p] = "fetchPrimaries"]
                /\ primaryIds' = [primaryIds EXCEPT ![p] = PrimaryIdsOf(m)]
    /\ UNCHANGED <<contacts, clock, isProduction, req, primaryContacts,
                   call, pre, prev, received, merged>>

\* CASE 1: create the new primary and answer with it.
CreatePrimary(p, obs) ==
    /\ pc[p] = "createPrimary"
    /\ Len(contacts) < MaxContacts
    /\ LET newContact == NewContact(contacts, clock, OrNull(req[p].email),
                                    OrNull(req[p].phoneNumber), NullId, "primary")
       IN  /\ contacts' = Append(contacts, newContact)
           /\ Respond(p, Ok(formatResponse(newContact, <<>>)), NoFault, obs)
    /\ clock' = clock + 1
    /\ UNCHANGED <<isProduction, pre, prev, received, merged>>

\* primaryContacts = findMany(...); truePrimary = primaryContacts[0].
\* With no row fetched truePrimary is undefined and its first use throws.
FetchPrimaries(p, obs) ==
    /\ pc[p] = "fetchPrimaries"
    /\ LET fetched == PrimaryContactsOf(contacts, primaryIds[p])
       IN  IF fetched = <<>>
           THEN Fail(p, TypeError, NoFault, obs)
           ELSE /\ primaryContacts' = [primaryContacts EXCEPT ![p] = fetched]
                /\ pc' = [pc EXCEPT ![p] =
                            IF Len(fetched) > 1 THEN "merge" ELSE AfterMerge(p)]
                /\ UNCHANGED <<req, primaryIds, call>>
    /\ UNCHANGED <<contacts, clock, isProduction, pre, prev, received, merged>>

\* CASE 2: the merge transaction, committed.
MergeTransaction(p) ==
    /\ pc[p] = "merge"
    /\ LET ops == MergeOps(others(p))
       IN  contacts' = Transaction(contacts, ops, Len(ops) + 1, truePrimary(p).id)
    /\ pc' = [pc EXCEPT ![p] = AfterMerge(p)]
    /\ merged' = [merged EXCEPT ![p] =
            {primaryContacts[p][i].id : i \in 1..Len(primaryContacts[p])}]
    /\ UNCHANGED <<clock, isProduction, req, primaryIds, primaryContacts,
                   call, pre, prev, received>>

\* CASE 3: allLinkedContacts = findMany(...), hasNewInfo, exactMatch.
CheckNewInfo(p) ==
    /\ pc[p] = "checkNewInfo"
    /\ LET group == LinkedContacts(contacts, truePrimary(p).id)
       IN  pc' = [pc EXCEPT ![p] =
                    IF ShouldCreateSecondary(group, req[p].email, req[p].phoneNumber)
                    THEN "createSecondary" ELSE "finalFetch"]
    /\ UNCHANGED <<contacts, clock, isProduction, req, primaryIds,
                   primaryContacts, call, pre, prev, received, merged>>

CreateSecondary(p) ==
    /\ pc[p] = "createSecondary"
    /\ Len(contacts) < MaxContacts
    /\ contacts' = Append(contacts,
            NewContact(contacts, clock, req[p].email, req[p].phoneNumber,
                       truePrimary(p).id, "secondary"))
    /\ clock' = clock + 1
    /\ pc' = [pc EXCEPT ![p] = "finalFetch"]
    /\ UNCHANGED <<isProduction, req, primaryIds, primaryContacts, call,
                   pre, prev, received, merged>>

\* allContacts = findMany(...); formatResponse(truePrimary, secondaries).
FinalFetch(p, obs) ==
    /\ pc[p] = "finalFetch"
    /\ Respond(p, Ok(formatResponse(truePrimary(p),
                                    Secondaries(contacts, truePrimary(p).id))),
               NoFault, obs)
    /\ UNCHANGED <<contacts, clock, isProduction, pre, prev, received, merged>>

\* An awaited store operation outside the transaction rejects with err: the
\* rejection reaches the controller's catch and the error handler; nothing
\* was written.
Reject(p, err, obs) ==
    /\ pc[p] \in {"findMatching", "createPrimary", "fetchPrimaries",
                  "checkNewInfo", "createSecondary", "finalFetch"}
    /\ Fail(p, err, [step |-> pc[p], k |-> 0], obs)
    /\ UNCHANGED <<contacts, clock, isProduction, pre, prev, received, merged>>

\* A store operation outside the transaction fails.
StoreFailure(p, obs) == Reject(p, StorageError, obs)

\* The transaction fails after k of its statements went through (k equal to
\* their number: the commit fails).
MergeFailure(p, k, obs) ==
    /\ pc[p] = "merge"
    /\ k \in 0..Len(MergeOps(others(p)))
    /\ contacts' = Transaction(contacts, MergeOps(others(p)), k, truePrimary(p).id)
    /\ Fail(p, StorageError, [step |-> "merge", k |-> k], obs)
    /\ UNCHANGED <<clock, isProduction, pre, prev, received, merged>>

\* identifyContact as a function: the table and the answer an unfailed call
\* with request r, running alone on `store`, ends with.
identifyContact(store, now, r) ==
    LET matchingContacts == MatchingContacts(store, r.email, r.phoneNumber)
    IN  IF matchingContacts = {}
        THEN LET newContact == NewContact(store, now, OrNull(r.email),
                                          OrNull(r.phoneNumber), NullId, "primary")
             IN  [store |-> Append(store, newContact),
                  contact |-> formatResponse(newContact, <<>>)]
        ELSE LET fetched == PrimaryContactsOf(store, PrimaryIdsOf(matchingContacts))
                 oldest == fetched[1]
                 ops == MergeOps(Tail(fetched))
                 joined == IF Len(fetched) > 1
                           THEN Transaction(store, ops, Len(ops) + 1, oldest.id)
                           ELSE store
                 group == LinkedContacts(joined, oldest.id)
                 final ==
                    IF /\ Truthy(r.email) /\ Truthy(r.phoneNumber)
                       /\ ShouldCreateSecondary(group, r.email, r.phoneNumber)
                    THEN Append(joined,
                            NewContact(joined, now, r.email, r.phoneNumber,
                                       oldest.id, "secondary"))
                    ELSE joined
             IN  [store |-> final,
                  contact |-> formatResponse(oldest, Secondaries(final, oldest.id))]

\* ---------------------------------------------------------- specifications
\* Bodies as a well-behaved client sends them: each field a string or null.
CoreBodies ==
    [email : Emails \cup {NULL},
     phoneNumber : {PhoneStr(s) : s \in Phones} \cup {PhoneNull}]

\* Every shape of body the schema distinguishes: each field absent, null,
\* empty, malformed or well-formed, the phone as a string or as a number.
AllBodies ==
    [email : {"a@x.io"} \cup BadEmails \cup {NULL, ABSENT, ""},
     phoneNumber : {PhoneStr(s) : s \in {"111", ""}}
                   \cup {PhoneNum(n) : n \in PhoneNumbersNumeric}
                   \cup {PhoneNull, PhoneAbsent}]

\* The steps of a call once it is received.
Steps(p, obs) ==
    \/ FindMatching(p)
    \/ CreatePrimary(p, obs)
    \/ FetchPrimaries(p, obs)
    \/ MergeTransaction(p)
    \/ CheckNewInfo(p)
    \/ CreateSecondary(p)
    \/ FinalFetch(p, obs)

\* Calls arrive one at a time and no store operation fails.
Next ==
    \/ \E b \in CoreBodies : Identify("a", b, "full")
    \/ Steps("a", "full")

Spec == Init /\ [][Next]_vars

\* One call on any flat table.
NextAny ==
    \/ \E b \in CoreBodies : received = 0 /\ Identify("a", b, "call")
    \/ Steps("a", "call")

SpecAny == InitAny /\ [][NextAny]_vars

\* One at a time, with every shape of body.
NextHttp ==
    \/ \E b \in AllBodies : Identify("a", b, "call")
    \/ Steps("a", "call")

SpecHttp == InitHttp /\ [][NextHttp]_vars

\* One at a time, and any store operation may fail.
NextFail ==
    \/ \E b \in CoreBodies : Identify("a", b, "call")
    \/ Steps("a", "call")
    \/ StoreFailure("a", "call")
    \/ \E k \in 0..(2 * MaxContacts) : MergeFailure("a", k, "call")

SpecFail == Init /\ [][NextFail]_vars

\* One at a time, any store operation may fail, and a failed call is
\* observed, with the table it was received on, while it is retried.
NextRetry ==
    \/ \E b \in CoreBodies : Identify("a", b, "retry")
    \/ Steps("a", "retry")
    \/ StoreFailure("a", "retry")
    \/ \E k \in 0..(2 * MaxContacts) : MergeFailure("a", k, "retry")

SpecRetry == Init /\ [][NextRetry]_vars

\* The errors an awaited operation of a route handler may pass to next().
Errors ==
    {StorageError, TypeError, Error(""),
     NotFoundError("Resource not found"), AppError("Service unavailable", 503)}

\* One at a time, in either environment, and an awaited operation may
\* reject with any error.
NextErr ==
    \/ \E b \in CoreBodies : Identify("a", b, "call")
    \/ Steps("a", "call")
    \/ \E err \in Errors : Reject("a", err, "call")

SpecErr == InitHttp /\ [][NextErr]_vars

\* Two calls at once, their store operations interleaved: while call a runs
\* a second call b is received, and the next call is received when both are
\* over.
NextConc ==
    \/ \E b \in CoreBodies : Idle /\ Identify("a", b, "none")
    \/ \E b \in CoreBodies :
            pc["a"] # "idle" /\ received = 1 /\ Identify("b", b, "none")
    \/ \E p \in Procs : Steps(p, "none")

\* Two calls at once with the same request.
NextSame ==
    \/ \E b \in CoreBodies : Idle /\ Identify("a", b, "none")
    \/ \E b \in CoreBodies :
            /\ pc["a"] # "idle" /\ received = 1
            /\ Normalised(b) = req["a"]
            /\ Identify("b", b, "none")
    \/ \E p \in Procs : Steps(p, "none")

SpecSame == Init /\ [][NextSame]_vars

SpecConc == Init /\ [][NextConc]_vars

\* The bodies of the calls whose termination is checked: one email, one
\* phone, each of them supplied or null.
LiveBodies ==
    [email : {"a@x.io", NULL},
     phoneNumber : {PhoneStr("111"), PhoneNull}]

\* A store operation of call p returns or fails.
StoreOperation(p) ==
    \/ Steps(p, "none")
    \/ StoreFailure(p, "none")
    \/ \E k \in 0..(2 * MaxContacts) : MergeFailure(p, k, "none")

\* Two calls at once, and any store operation may fail; an insert into a
\* table of MaxContacts rows can only fail.
NextLive ==
    \/ \E b \in LiveBodies : Idle /\ Identify("a", b, "none")
    \/ \E b \in LiveBodies :
            pc["a"] # "idle" /\ received = 1 /\ Identify("b", b, "none")
    \/ \E p \in Procs : StoreOperation(p)

\* Every store operation a call awaits eventually returns or fails.
SpecLive ==
    /\ Init /\ [][NextLive]_vars
    /\ \A p \in Procs : WF_vars(StoreOperation(p))

\* -------------------------------------------------------------- properties
\* The id of the primary of the group row c belongs to.
PrimaryIdOf(c) == IF c.linkedId = NullId THEN c.id ELSE c.linkedId

Pair(c) == <<c.email, c.phoneNumber>>

\* The latest call was answered 200 and nothing is running.
Answered == pc["a"] = "idle" /\ call.resp.status = 200

\* Rows of `store` that carry the email or the phone of request r.
Carrying(store, r) ==
    {c \in Rows(store) : NotDeleted(c) /\
        \/ (r.email # NULL /\ c.email = r.email)
        \/ (r.phoneNumber # NULL /\ c.phoneNumber = r.phoneNumber)}

\* The groups (by primary id) request r touches in `store`.
GroupsTouched(store, r) == {PrimaryIdOf(c) : c \in Carrying(store, r)}

\* Members of the group of primary id g in `store`.
Members(store, g) == {c \in Rows(store) : NotDeleted(c) /\ PrimaryIdOf(c) = g}

SeqToSet(q) == {q[i] : i \in 1..Len(q)}

\* The rows of `before` are all still in `after`, untouched.
Untouched(before, after) ==
    /\ Len(after) >= Len(before)
    /\ \A i \in 1..Len(before) : after[i] = before[i]

\* C1: in sequential runs from the empty store, no row's linkedId refers to
\* a row whose own linkedId is non-null.
C1_FlatHierarchy ==
    \A c \in Rows(contacts) :
        c.linkedId # NullId =>
            \A d \in Rows(contacts) : d.id = c.linkedId => d.linkedId = NullId

\* C1 witness: a merge has demoted a primary that had a secondary of its own.
C1_Witness ==
    \E c \in Rows(contacts) : \E d \in Rows(contacts) :
        /\ c.id <= Len(pre) /\ d.id <= Len(pre)
        /\ pre[c.id].linkPrecedence = "primary"
        /\ c.linkPrecedence = "secondary"
        /\ pre[d.id].linkedId = c.id
        /\ d.linkedId = c.linkedId

\* C2: the same request twice in a row: the second answer equals the first
\* and the second call leaves the table as it found it.
C2_Idempotent ==
    (Answered /\ prev.resp.status = 200 /\ prev.req = call.req)
        => (call.resp = prev.resp /\ contacts = pre)

\* C2 witness: a repeated request whose first call had inserted a secondary.
C2_Witness ==
    /\ Answered /\ prev.resp.status = 200 /\ prev.req = call.req
    /\ call.req.email # NULL /\ call.req.phoneNumber # NULL
    /\ \E c \in Rows(contacts) :
        /\ c.linkPrecedence = "secondary"
        /\ Pair(c) = <<call.req.email, call.req.phoneNumber>>
        /\ c.id = Len(contacts)

\* C3: a request touching two or more groups: the oldest of their primaries
\* stays primary and is the id answered, every other one is a secondary of
\* it and is listed with its former secondaries, and the answer carries every
\* email and phone of the merged groups.
C3_MergeOldestWins ==
    (Answered /\ Cardinality(GroupsTouched(pre, call.req)) >= 2) =>
        LET groups == GroupsTouched(pre, call.req)
            oldest == CHOOSE g \in groups :
                        \A h \in groups : pre[g].createdAt <= pre[h].createdAt
            members == UNION {Members(pre, g) : g \in groups}
            answer == call.resp.contact
        IN  /\ contacts[oldest].linkPrecedence = "primary"
            /\ contacts[oldest].linkedId = NullId
            /\ answer.primaryContatctId = oldest
            /\ \A g \in groups \ {oldest} :
                /\ contacts[g].linkPrecedence = "secondary"
                /\ contacts[g].linkedId = oldest
            /\ \A c \in members :
                /\ c.id # oldest =>
                    /\ c.id \in SeqToSet(answer.secondaryContactIds)
                    /\ contacts[c.id].linkPrecedence = "secondary"
                    /\ contacts[c.id].linkedId = oldest
                /\ c.email # NULL => c.email \in SeqToSet(answer.emails)
                /\ c.phoneNumber # NULL =>
                        c.phoneNumber \in SeqToSet(answer.phoneNumbers)

\* C3 witness: a merge in which the demoted primary brought a secondary.
C3_Witness ==
    /\ Answered /\ Cardinality(GroupsTouched(pre, call.req)) >= 2
    /\ \E c \in Rows(pre) :
        /\ c.linkedId # NullId
        /\ c.linkedId # call.resp.contact.primaryContatctId
        /\ contacts[c.id].linkedId = call.resp.contact.primaryContatctId

\* C4: in sequential runs, two rows with the same email or the same phone
\* are in the same group.
C4_SharedValueSameGroup ==
    \A c, d \in {r \in Rows(contacts) : NotDeleted(r)} :
        (\/ (c.email # NULL /\ c.email = d.email)
         \/ (c.phoneNumber # NULL /\ c.phoneNumber = d.phoneNumber))
            => PrimaryIdOf(c) = PrimaryIdOf(d)

\* C4 witness: a merge has just demoted a primary into a group in which two
\* rows share a phone.
C4_Witness ==
    \E c, d, e \in Rows(contacts) :
        /\ c.id # d.id
        /\ c.phoneNumber # NULL /\ c.phoneNumber = d.phoneNumber
        /\ e.id <= Len(pre)
        /\ pre[e.id].linkPrecedence = "primary"
        /\ e.linkPrecedence = "secondary"
        /\ PrimaryIdOf(c) = PrimaryIdOf(e)

\* C7: a request no row matches: exactly one row is inserted, a primary
\* with the request's email and phone; no other row changes; the answer is
\* that row's id, its email and phone as lists of at most one value, and no
\* secondary ids.
C7_NoMatchCreatesPrimary ==
    (Answered /\ Carrying(pre, call.req) = {}) =>
        /\ Len(contacts) = Len(pre) + 1
        /\ Untouched(pre, contacts)
        /\ contacts[Len(contacts)] =
                [id |-> Len(pre) + 1,
                 email |-> call.req.email,
                 phoneNumber |-> call.req.phoneNumber,
                 linkedId |-> NullId,
                 linkPrecedence |-> "primary",
                 createdAt |-> contacts[Len(contacts)].createdAt,
                 deletedAt |-> NullTime]
        /\ call.resp.contact =
                [primaryContatctId |-> Len(pre) + 1,
                 emails |-> IF call.req.email = NULL THEN <<>>
                            ELSE <<call.req.email>>,
                 phoneNumbers |-> IF call.req.phoneNumber = NULL THEN <<>>
                                  ELSE <<call.req.phoneNumber>>,
                 secondaryContactIds |-> <<>>]

\* C7 witness: such a request answered while other rows exist, with only a
\* phone supplied.
C7_Witness ==
    /\ Answered /\ Carrying(pre, call.req) = {}
    /\ Len(pre) >= 1
    /\ call.req.email = NULL

\* Exactly one of the two values of request r is carried by a row of `store`.
OneValueKnown(store, r) ==
    /\ r.email # NULL /\ r.phoneNumber # NULL
    /\ (\E c \in Rows(store) : NotDeleted(c) /\ c.email = r.email)
        # (\E c \in Rows(store) : NotDeleted(c) /\ c.phoneNumber = r.phoneNumber)

\* C8: both fields supplied, one carried by a row of a group and the other
\* new: exactly one row is inserted, a secondary of that group's primary with
\* the supplied pair; the answer holds both values, and its secondary ids
\* are the group's former ones and the new id.
C8_PartialMatchCreatesSecondary ==
    (Answered /\ OneValueKnown(pre, call.req)) =>
        \E g \in GroupsTouched(pre, call.req) :
            /\ GroupsTouched(pre, call.req) = {g}
            /\ Len(contacts) = Len(pre) + 1
            /\ Untouched(pre, contacts)
            /\ contacts[Len(contacts)] =
                    [id |-> Len(pre) + 1,
                     email |-> call.req.email,
                     phoneNumber |-> call.req.phoneNumber,
                     linkedId |-> g,
                     linkPrecedence |-> "secondary",
                     createdAt |-> contacts[Len(contacts)].createdAt,
                     deletedAt |-> NullTime]
            /\ call.resp.contact.primaryContatctId = g
            /\ call.req.email \in SeqToSet(call.resp.contact.emails)
            /\ call.req.phoneNumber \in SeqToSet(call.resp.contact.phoneNumbers)
            /\ \A c \in Members(pre, g) :
                /\ c.email # NULL => c.email \in SeqToSet(call.resp.contact.emails)
                /\ c.phoneNumber # NULL =>
                    c.phoneNumber \in SeqToSet(call.resp.contact.phoneNumbers)
            /\ SeqToSet(call.resp.contact.secondaryContactIds) =
                    {c.id : c \in Members(pre, g) \ {pre[g]}} \cup {Len(pre) + 1}
            /\ Len(call.resp.contact.secondaryContactIds) =
                    Cardinality(Members(pre, g)) 

\* C8 witness: the phone matched a group that already had a secondary, and
\* the email was new.
C8_Witness ==
    /\ Answered /\ OneValueKnown(pre, call.req)
    /\ \E c \in Rows(pre) : c.phoneNumber = call.req.phoneNumber
    /\ Len(call.resp.contact.secondaryContactIds) = 2

\* The rows with linkPrecedence secondary.
SecondaryRows(store) == {c \in Rows(store) : c.linkPrecedence = "secondary"}

\* C9: in sequential runs a row inserted by a call never repeats the
\* (email, phoneNumber) pair of another row of its group, and a call whose
\* pair is already a row leaves the number of secondaries as it was.
C9_NoDuplicatePair ==
    /\ \A i \in (Len(pre) + 1)..Len(contacts) :
         \A c \in Members(contacts, PrimaryIdOf(contacts[i])) :
            c.id # i => Pair(c) # Pair(contacts[i])
    /\ (Answered /\ \E c \in Rows(pre) :
                        NotDeleted(c)
                        /\ Pair(c) = <<call.req.email, call.req.phoneNumber>>)
         => Cardinality(SecondaryRows(contacts)) = Cardinality(SecondaryRows(pre))

\* C9 witness: the pair of an existing secondary was submitted again and
\* answered.
C9_Witness ==
    /\ Answered
    /\ \E c \in SecondaryRows(pre) :
            Pair(c) = <<call.req.email, call.req.phoneNumber>>
    /\ \E i \in 1..Len(contacts) : \E j \in 1..Len(contacts) :
            i # j /\ contacts[i].email = contacts[j].email
                  /\ contacts[i].email # NULL

\* linkPrecedence and linkedId of every row of `after` are those it has in
\* `before`, and no row was added.
SameLinks(before, after) ==
    /\ Len(after) = Len(before)
    /\ \A i \in 1..Len(before) :
        /\ after[i].linkPrecedence = before[i].linkPrecedence
        /\ after[i].linkedId = before[i].linkedId

\* C5: a call whose merge transaction failed, at whichever of its statements
\* or at its commit, leaves every row's linkPrecedence and linkedId as they
\* were before the merge.
C5_MergeAllOrNothing ==
    (pc["a"] = "idle" /\ call.fault.step = "merge") => SameLinks(pre, contacts)

\* C5 witness: the failure came after the demotion of a primary and before
\* the re-linking of the secondary it had.
C5_Witness ==
    /\ pc["a"] = "idle"
    /\ call.fault = [step |-> "merge", k |-> 1]
    /\ \E g, h \in GroupsTouched(pre, call.req) :
        /\ pre[g].createdAt < pre[h].createdAt
        /\ \E c \in Rows(pre) : c.linkedId = h

\* No row with linkPrecedence secondary has a linkedId that refers to a row
\* which is itself a secondary.
NoLinkToSecondary(store) ==
    \A c \in Rows(store) :
        (c.linkPrecedence = "secondary" /\ c.linkedId # NullId) =>
            \A d \in Rows(store) :
                d.id = c.linkedId => d.linkPrecedence # "secondary"

\* C6: two calls that ran concurrently, each committing a merge, the two
\* merges sharing a group, on a table that had no secondary pointing at a
\* secondary when the first of them was received: once both are over no
\* secondary's linkedId refers to a secondary.
C6_ConcurrentMergesStayFlat ==
    (/\ Idle
     /\ received = 2
     /\ merged["a"] \cap merged["b"] # {}
     /\ NoLinkToSecondary(pre))
        => NoLinkToSecondary(contacts)

\* The body supplies a value for neither field: each is absent, null or "".
NeitherSupplied(b) ==
    /\ b.email \in {ABSENT, NULL, ""}
    /\ \/ b.phoneNumber.t \in {"absent", "null"}
       \/ (b.phoneNumber.t = "string" /\ b.phoneNumber.s = "")

\* The body's email is a string that is no e-mail address.
MalformedEmail(b) == b.email \notin {ABSENT, NULL} /\ b.email \notin Emails

\* A call has been received.
Received == received > 0

\* C10: a body that supplies neither field, or whose email is malformed, is
\* answered 400 with success false and an error message, at once and with
\* the table as it was.
C10_InvalidInputRejected ==
    (Received /\ (NeitherSupplied(call.body) \/ MalformedEmail(call.body))) =>
        /\ pc["a"] = "idle"
        /\ call.resp.status = 400
        /\ call.resp.success = "false"
        /\ call.resp.error \notin {ABSENT, ""}
        /\ call.resp.contact = NoContact
        /\ contacts = pre

\* C10 witness: an empty email with an absent phone, rejected while the
\* table holds rows.
C10_Witness ==
    /\ Received
    /\ call.body = [email |-> "", phoneNumber |-> PhoneAbsent]
    /\ call.resp.status = 400
    /\ Len(contacts) >= 1

\* The non-deleted rows of the group of primary id g: the primary and the
\* rows whose linkedId is g.
GroupRows(store, g) ==
    {c \in Rows(store) : NotDeleted(c) /\ (c.id = g \/ c.linkedId = g)}

\* The non-deleted rows whose linkedId is g.
LinkedTo(store, g) == {c \in Rows(store) : NotDeleted(c) /\ c.linkedId = g}

NoRepeat(q) == \A i, j \in 1..Len(q) : i # j => q[i] # q[j]

Min(S) == CHOOSE t \in S : \A u \in S : t <= u

\* C11: in every answer the primary's email, when it has one, is the first
\* of emails, and its phone, when it has one, the first of phoneNumbers.
C11_PrimaryValuesFirst ==
    Answered =>
        LET answer == call.resp.contact
            primary == contacts[answer.primaryContatctId]
        IN  /\ primary.email # NULL =>
                /\ Len(answer.emails) >= 1
                /\ answer.emails[1] = primary.email
            /\ primary.phoneNumber # NULL =>
                /\ Len(answer.phoneNumbers) >= 1
                /\ answer.phoneNumbers[1] = primary.phoneNumber

\* C11 witness: an answer with two emails and two phones, the primary's own
\* ahead of a secondary's.
C11_Witness ==
    /\ Answered
    /\ Len(call.resp.contact.emails) = 2
    /\ Len(call.resp.contact.phoneNumbers) = 2
    /\ contacts[call.resp.contact.primaryContatctId].email # NULL
    /\ contacts[call.resp.contact.primaryContatctId].phoneNumber # NULL

\* The createdAt of the first row of S whose email is v / whose phone is v.
FirstWithEmail(S, v) == Min({c.createdAt : c \in {d \in S : d.email = v}})
FirstWithPhone(S, v) == Min({c.createdAt : c \in {d \in S : d.phoneNumber = v}})

\* C12: in every answer emails holds no value twice and exactly the non-null
\* emails of the non-deleted rows of the answered primary's group; after the
\* primary's own value the values follow in ascending createdAt of the first
\* secondary carrying them.  Likewise phoneNumbers.
C12_ListsExactAndOrdered ==
    Answered =>
        LET answer == call.resp.contact
            g == answer.primaryContatctId
            group == GroupRows(contacts, g)
            linked == LinkedTo(contacts, g)
            es == answer.emails
            ps == answer.phoneNumbers
            e0 == IF contacts[g].email # NULL THEN 2 ELSE 1
            p0 == IF contacts[g].phoneNumber # NULL THEN 2 ELSE 1
        IN  /\ NoRepeat(es)
            /\ NoRepeat(ps)
            /\ SeqToSet(es) = {c.email : c \in {d \in group : d.email # NULL}}
            /\ SeqToSet(ps) =
                {c.phoneNumber : c \in {d \in group : d.phoneNumber # NULL}}
            /\ \A i, j \in e0..Len(es) :
                i < j => FirstWithEmail(linked, es[i]) < FirstWithEmail(linked, es[j])
            /\ \A i, j \in p0..Len(ps) :
                i < j => FirstWithPhone(linked, ps[i]) < FirstWithPhone(linked, ps[j])

\* C12 witness: a primary without email and two secondaries that bring two
\* emails and repeat the primary's phone.
C12_Witness ==
    /\ Answered
    /\ contacts[call.resp.contact.primaryContatctId].email = NULL
    /\ Len(call.resp.contact.secondaryContactIds) = 2
    /\ Len(call.resp.contact.emails) = 2
    /\ Len(call.resp.contact.phoneNumbers) = 1

\* C13: in every answer secondaryContactIds holds exactly the ids of the
\* non-deleted rows whose linkedId is the answered primary id, each once, in
\* ascending createdAt, never the primary id, and is the empty list when
\* there is no such row.
C13_SecondaryIdsExact ==
    Answered =>
        LET ids == call.resp.contact.secondaryContactIds
            g == call.resp.contact.primaryContatctId
        IN  /\ SeqToSet(ids) = {c.id : c \in LinkedTo(contacts, g)}
            /\ NoRepeat(ids)
            /\ \A i, j \in 1..Len(ids) :
                i < j => contacts[ids[i]].createdAt < contacts[ids[j]].createdAt
            /\ g \notin SeqToSet(ids)
            /\ LinkedTo(contacts, g) = {} => ids = <<>>

\* C13 witness: two secondary ids answered, one of them a primary demoted by
\* this call.
C13_Witness ==
    /\ Answered
    /\ Len(call.resp.contact.secondaryContactIds) = 2
    /\ \E i \in SeqToSet(call.resp.contact.secondaryContactIds) :
        i <= Len(pre) /\ pre[i].linkPrecedence = "primary"

\* Request r supplies exactly one of email and phone.
OnlyOneSupplied(r) == (r.email = NULL) # (r.phoneNumber = NULL)

\* C14: in sequential runs a request with only an email or only a phone that
\* matches a row leaves the table as it was and is answered with the whole
\* group of the matched row: its primary id, all its emails and phones, and
\* all its secondary ids.
C14_SingleFieldLookup ==
    (Answered /\ OnlyOneSupplied(call.req) /\ Carrying(pre, call.req) # {}) =>
        /\ contacts = pre
        /\ \E g \in GroupsTouched(pre, call.req) :
            /\ GroupsTouched(pre, call.req) = {g}
            /\ call.resp.contact.primaryContatctId = g
            /\ SeqToSet(call.resp.contact.emails) =
                {c.email : c \in {d \in Members(pre, g) : d.email # NULL}}
            /\ SeqToSet(call.resp.contact.phoneNumbers) =
                {c.phoneNumber : c \in
                    {d \in Members(pre, g) : d.phoneNumber # NULL}}
            /\ SeqToSet(call.resp.contact.secondaryContactIds) =
                {c.id : c \in Members(pre, g)} \ {g}

\* C14 witness: a phone-only request answered with two emails and two
\* secondary ids.
C14_Witness ==
    /\ Answered
    /\ call.req.email = NULL /\ call.req.phoneNumber # NULL
    /\ Carrying(pre, call.req) # {}
    /\ Len(call.resp.contact.emails) = 2
    /\ Len(call.resp.contact.secondaryContactIds) = 2

\* C15: in sequential runs a row is primary exactly when its linkedId is
\* null, and every non-null linkedId is the id of a row of the table.
C15_PrecedenceMatchesLink ==
    \A c \in Rows(contacts) :
        /\ (c.linkPrecedence = "primary") <=> (c.linkedId = NullId)
        /\ c.linkedId # NullId => c.linkedId \in 1..Len(contacts)

\* C15 witness: the table holds a row inserted as a secondary and a primary
\* demoted by the latest call.
C15_Witness ==
    /\ \E c \in Rows(pre) : c.linkPrecedence = "secondary"
    /\ \E d \in Rows(pre) :
        d.linkPrecedence = "primary"
        /\ contacts[d.id].linkPrecedence = "secondary"

\* No two rows of `store` have the same (email, phoneNumber) pair.
NoDuplicatePairs(store) ==
    \A i, j \in 1..Len(store) : i # j => Pair(store[i]) # Pair(store[j])

\* The latest call repeats the request of the call before it, which failed
\* with a storage failure, and was answered.
RetryAnswered ==
    Answered /\ prev.fault.step # "none" /\ prev.req = call.req

\* C16: a call failed with a storage failure at one of its store operations
\* and the same request was then retried to success, no other call in
\* between: the table holds no two rows with the same (email, phoneNumber)
\* and the retry's answer is the one a single unfailed call would have given
\* on the table the failed call was received on.
C16_RetryAfterFailure ==
    RetryAnswered =>
        /\ NoDuplicatePairs(contacts)
        /\ call.resp.contact =
                identifyContact(prev.store, clock, call.req).contact

\* C16 witness: the failed call had inserted its secondary and failed at the
\* final fetch.
C16_Witness ==
    /\ RetryAnswered
    /\ prev.fault.step = "finalFetch"
    /\ Len(pre) = Len(prev.store) + 1
    /\ pre[Len(pre)].linkPrecedence = "secondary"

\* C17: a row that is secondary is secondary in every later state, and the
\* only change of linkPrecedence a step makes to an existing row is primary
\* to secondary, by a committing merge.
C17_NeverPromoted ==
    [][\A i \in 1..Len(contacts) :
        /\ contacts[i].linkPrecedence = "secondary"
            => contacts'[i].linkPrecedence = "secondary"
        /\ contacts'[i].linkPrecedence # contacts[i].linkPrecedence =>
            /\ contacts[i].linkPrecedence = "primary"
            /\ contacts'[i].linkPrecedence = "secondary"
            /\ \E p \in Procs : pc[p] = "merge" /\ pc'[p] # "merge"]_vars

\* C17 witness: two concurrent calls are over, one merge has demoted a
\* primary and re-linked a secondary that was a secondary before.
C17_Witness ==
    /\ Idle /\ received = 2
    /\ \E c, d \in Rows(pre) :
        /\ c.linkPrecedence = "primary"
        /\ contacts[c.id].linkPrecedence = "secondary"
        /\ d.linkedId = c.id
        /\ contacts[d.id].linkedId # c.id
        /\ contacts[d.id].linkPrecedence = "secondary"

\* C18: no row of the table has both email and phoneNumber null.
C18_NoEmptyRow ==
    \A c \in Rows(contacts) :
        c.email \notin {NULL, ABSENT} \/ c.phoneNumber \notin {NULL, ABSENT}

\* C18 witness: a row without email whose phone came in as the number 0.
C18_Witness ==
    \E c \in Rows(contacts) : c.email = NULL /\ c.phoneNumber = "0"

\* C19: two calls with the same request ran concurrently on a table without
\* two rows of the same (email, phoneNumber): once both are over the table
\* still has no two such rows.
C19_ConcurrentSameNoDuplicate ==
    (Idle /\ received = 2 /\ NoDuplicatePairs(pre)) => NoDuplicatePairs(contacts)

\* An error was passed to the error handler by the latest call.
Handled == call.err # NoError

\* C20 (as stated): an error that is not an AppError is answered 500 with
\* success false; in production the error text is always "Internal server
\* error", otherwise it is the error's own message; an AppError is answered
\* with its own statusCode and message.
C20_ErrorHandlerOwnMessage ==
    Handled =>
        /\ call.resp.success = "false"
        /\ call.resp.contact = NoContact
        /\ IF call.err.isAppError
           THEN /\ call.resp.status = call.err.statusCode
                /\ call.resp.error = call.err.message
           ELSE /\ call.resp.status = 500
                /\ call.resp.error = IF isProduction
                                     THEN "Internal server error"
                                     ELSE call.err.message

\* C20 (amended): as above, except that outside production an error whose
\* message is empty is answered with "Internal server error" as well.
C20_ErrorHandlerAnswers ==
    Handled =>
        /\ call.resp.success = "false"
        /\ call.resp.contact = NoContact
        /\ IF call.err.isAppError
           THEN /\ call.resp.status = call.err.statusCode
                /\ call.resp.error = call.err.message
           ELSE /\ call.resp.status = 500
                /\ call.resp.error =
                    IF isProduction \/ call.err.message = ""
                    THEN "Internal server error"
                    ELSE call.err.message

\* C20 witness: outside production, an error with an empty message was
\* answered with the fixed text.
C20_Witness ==
    /\ ~isProduction
    /\ call.err = Error("")
    /\ call.resp.status = 500
    /\ call.resp.error = "Internal server error"

\* The body's phoneNumber is a JSON number.
NumericPhone(b) == b.phoneNumber.t = "number"

\* Body b with its numeric phoneNumber written as the decimal string.
AsString(b) == [b EXCEPT !.phoneNumber = PhoneStr(ToString(b.phoneNumber.n))]

\* C21: a body whose phoneNumber is a number is resolved as the same body
\* with the number's decimal string: the request given to the service carries
\* the string, and answer and table are those the string body gives on the
\* table the call was received on; it is rejected exactly when the string
\* body is.
C21_NumericPhoneAsString ==
    (Received /\ pc["a"] = "idle" /\ NumericPhone(call.body)) =>
        /\ (call.resp.status = 200) = identifySchema(AsString(call.body)).success
        /\ call.resp.status = 200 =>
            LET r == Normalised(AsString(call.body))
                expected == identifyContact(pre, clock - 1, r)
            IN  /\ call.req = r
                /\ call.req.phoneNumber = ToString(call.body.phoneNumber.n)
                /\ call.resp.contact = expected.contact
                /\ contacts = expected.store

\* C21 witness: the number 111 matched a row whose phone is the string
\* "111" and a secondary with that phone was inserted.
C21_Witness ==
    /\ Answered /\ NumericPhone(call.body)
    /\ call.body.phoneNumber.n = 111
    /\ \E c \in Rows(pre) : c.phoneNumber = "111"
    /\ Len(contacts) = Len(pre) + 1
    /\ contacts[Len(contacts)].phoneNumber = "111"
    /\ call.resp.contact.phoneNumbers = <<"111">>

\* The rows of the answered primary's group that the latest call found in
\* the table, as they are after its merge.
GroupFound == {c \in GroupRows(contacts, call.resp.contact.primaryContatctId) :
                    c.id <= Len(pre)}

\* The latest call inserted a row.
Inserted == Len(contacts) = Len(pre) + 1

\* C22: a call that found a match inserts a row exactly when both email and
\* phone were supplied, no row of the group (after the merge) carries the
\* supplied pair and at least one supplied value is carried by no row of the
\* group; so a request whose email and phone are both known to the group,
\* under different rows, inserts no row.
C22_CreatesIffNewInfo ==
    (Answered /\ Carrying(pre, call.req) # {}) =>
        /\ Len(contacts) \in {Len(pre), Len(pre) + 1}
        /\ Inserted <=>
            /\ call.req.email # NULL /\ call.req.phoneNumber # NULL
            /\ \A c \in GroupFound :
                Pair(c) # <<call.req.email, call.req.phoneNumber>>
            /\ \/ \A c \in GroupFound : c.email # call.req.email
               \/ \A c \in GroupFound : c.phoneNumber # call.req.phoneNumber

\* C22 witness: email and phone both known to one group under different
\* rows, no row with the pair, and nothing inserted.
C22_Witness ==
    /\ Answered /\ ~Inserted
    /\ call.req.email # NULL /\ call.req.phoneNumber # NULL
    /\ \E c \in GroupFound : c.email = call.req.email
    /\ \E c \in GroupFound : c.phoneNumber = call.req.phoneNumber
    /\ \A c \in GroupFound : Pair(c) # <<call.req.email, call.req.phoneNumber>>

\* C23: in sequential runs no secondary was created before the row its
\* linkedId refers to.
C23_PrimaryIsOldest ==
    \A c \in Rows(contacts) :
        c.linkedId # NullId => contacts[c.linkedId].createdAt < c.createdAt

\* C23 witness: a merge answered in which the request's email belonged to
\* the newer of the two primaries.
C23_Witness ==
    /\ Answered
    /\ \E c, d \in Rows(pre) :
        /\ c.linkPrecedence = "primary" /\ d.linkPrecedence = "primary"
        /\ c.createdAt < d.createdAt
        /\ d.email = call.req.email /\ d.email # NULL
        /\ c.phoneNumber = call.req.phoneNumber /\ c.phoneNumber # NULL
        /\ contacts[d.id].linkedId = c.id

\* C27: in sequential runs every answer holds the supplied email in emails
\* and the supplied phone in phoneNumbers.
C27_AnswerHoldsRequest ==
    Answered =>
        /\ call.req.email # NULL =>
            call.req.email \in SeqToSet(call.resp.contact.emails)
        /\ call.req.phoneNumber # NULL =>
            call.req.phoneNumber \in SeqToSet(call.resp.contact.phoneNumbers)

\* C27 witness: an email-only request whose email is carried by a secondary
\* alone.
C27_Witness ==
    /\ Answered
    /\ call.req.email # NULL /\ call.req.phoneNumber = NULL
    /\ \A c \in Carrying(pre, call.req) : c.linkPrecedence = "secondary"
    /\ Carrying(pre, call.req) # {}

\* C24: at the step at which a call does its final fetch and answers, the
\* row it uses as truePrimary has linkPrecedence primary.
C24_TruePrimaryIsPrimary ==
    [][\A p \in Procs :
        (pc[p] = "finalFetch" /\ pc'[p] = "idle") =>
            contacts[truePrimary(p).id].linkPrecedence = "primary"]_vars

\* C25: two calls ran concurrently on a table with no secondary pointing at
\* a secondary, one of them committed a merge, and a secondary was inserted
\* under a primary of the merged groups: once both are over, the inserted
\* row's linkedId refers to a primary.
C25_NewSecondaryUnderPrimary ==
    (Idle /\ received = 2 /\ NoLinkToSecondary(pre)) =>
        \A i \in (Len(pre) + 1)..Len(contacts) :
            (/\ contacts[i].linkPrecedence = "secondary"
             /\ \E q \in Procs : contacts[i].linkedId \in merged[q])
                => contacts[contacts[i].linkedId].linkPrecedence = "primary"

\* Row i has the same linkPrecedence and linkedId in both stores.
SameLink(before, after, i) ==
    /\ after[i].linkPrecedence = before[i].linkPrecedence
    /\ after[i].linkedId = before[i].linkedId

\* C28: no step of a call removes a row or changes id, email, phoneNumber,
\* createdAt or deletedAt of an existing row.  The groups a call matched are
\* those of the rows carrying its email or phone at its match query; the
\* only existing rows whose linkPrecedence or linkedId a step changes are,
\* at a committing merge, primaries of the matched groups, which become
\* secondaries of another of them, and rows whose linkedId is one of them.
\* A row of no matched group is left as it is.
C28_FrameOfACall ==
    [][/\ Len(contacts') >= Len(contacts)
       /\ \A p \in Procs :
            (pc[p] = "findMatching" /\ pc'[p] = "fetchPrimaries") =>
                primaryIds'[p] = GroupsTouched(contacts, req[p])
       /\ \A i \in 1..Len(contacts) :
            /\ contacts'[i].id = contacts[i].id
            /\ contacts'[i].email = contacts[i].email
            /\ contacts'[i].phoneNumber = contacts[i].phoneNumber
            /\ contacts'[i].createdAt = contacts[i].createdAt
            /\ contacts'[i].deletedAt = contacts[i].deletedAt
            /\ ~SameLink(contacts, contacts', i) =>
                \E p \in Procs :
                    /\ pc[p] = "merge" /\ pc'[p] # "merge"
                    /\ \/ /\ i \in primaryIds[p]
                          /\ contacts'[i].linkPrecedence = "secondary"
                          /\ contacts'[i].linkedId \in primaryIds[p] \ {i}
                       \/ /\ contacts[i].linkedId \in primaryIds[p]
                          /\ contacts'[i].linkPrecedence = contacts[i].linkPrecedence
                          /\ contacts'[i].linkedId \in primaryIds[p]]_vars

\* C28 witness: two concurrent calls are over, a merge has joined two
\* groups, and a third group, not matched, has its primary still.
C28_Witness ==
    /\ Idle /\ received = 2
    /\ \E p \in Procs :
        /\ Cardinality(merged[p]) = 2
        /\ \E c \in Rows(pre) :
            /\ c.id \notin merged[p]
            /\ c.linkPrecedence = "primary"
            /\ contacts[c.id] = c

\* C26: a call made alone on any flat table is over: every non-deleted row
\* whose email is the supplied email or whose phone is the supplied phone is
\* the answered primary or a secondary whose linkedId is the answered
\* primary id.
C26_CarriersInAnsweredGroup ==
    Answered =>
        \A c \in Carrying(contacts, call.req) :
            \/ c.id = call.resp.contact.primaryContatctId
            \/ /\ c.linkPrecedence = "secondary"
               /\ c.linkedId = call.resp.contact.primaryContatctId

\* No non-deleted row of `store` is linked to a soft-deleted row.
NoOrphan(store) ==
    \A c \in Rows(store) :
        (NotDeleted(c) /\ c.linkedId # NullId) => NotDeleted(store[c.linkedId])

\* C26 restricted to tables in which no non-deleted secondary is linked to a
\* soft-deleted primary.
C26_WithoutOrphans == NoOrphan(pre) => C26_CarriersInAnsweredGroup

\* Row c is soft-deleted.
SoftDeleted(c) == c.deletedAt # NullTime

\* `store` with every soft-deleted row emptied: its email and phone replaced
\* by values no request and no other row holds, its link removed.
Scrub(store) ==
    [i \in DOMAIN store |->
        IF SoftDeleted(store[i])
        THEN [store[i] EXCEPT !.email = "deleted", !.phoneNumber = "deleted",
                              !.linkedId = NullId, !.linkPrecedence = "primary"]
        ELSE store[i]]

\* C29: soft-deleted rows take no part in a call.  The answer, the row
\* inserted if any and every non-deleted row are what the call gives on the
\* table with the soft-deleted rows emptied; a request carried by soft-deleted
\* rows only is a request without match and inserts a primary; the answer
\* holds no id of a soft-deleted row; no soft-deleted row is changed.
C29_SoftDeletedExcluded ==
    Answered =>
        LET expected == identifyContact(Scrub(pre), clock - 1, call.req)
            answer == call.resp.contact
        IN  /\ answer = expected.contact
            /\ Len(contacts) = Len(expected.store)
            /\ \A i \in 1..Len(contacts) :
                ~SoftDeleted(contacts[i]) => contacts[i] = expected.store[i]
            /\ \A i \in 1..Len(pre) :
                SoftDeleted(pre[i]) => contacts[i] = pre[i]
            /\ (\A c \in Rows(pre) :
                    (\/ (call.req.email # NULL /\ c.email = call.req.email)
                     \/ (call.req.phoneNumber # NULL
                            /\ c.phoneNumber = call.req.phoneNumber))
                        => SoftDeleted(c))
                => /\ Inserted
                   /\ contacts[Len(contacts)].linkPrecedence = "primary"
                   /\ answer.primaryContatctId = Len(contacts)
            /\ \A i \in {answer.primaryContatctId}
                            \cup SeqToSet(answer.secondaryContactIds) :
                ~SoftDeleted(contacts[i])

\* C29 witness: a soft-deleted secondary of the matched group holds the
\* supplied pair, whose phone no other row of the group holds, and the call
\* inserted a secondary with that pair.
C29_Witness ==
    /\ Answered /\ Inserted
    /\ contacts[Len(contacts)].linkPrecedence = "secondary"
    /\ \E c \in Rows(pre) :
        /\ SoftDeleted(c)
        /\ Pair(c) = <<call.req.email, call.req.phoneNumber>>
        /\ c.linkedId = call.resp.contact.primaryContatctId

\* C30: every call that is received, alone or while another one runs, is
\* eventually over, with its answer or with an error, when every store
\* operation it awaits eventually returns or fails.
C30_EveryCallReturns ==
    \A p \in Procs : (pc[p] # "idle") ~> (pc[p] = "idle")

\* C30 witness: two calls ran at once, one of them committed a merge, and
\* both are over.
C30_Witness ==
    /\ Idle /\ received = 2
    /\ \E p \in Procs : Cardinality(merged[p]) > 1

\* The new-information check on `group` for the supplied pair: a supplied
\* value no row of the group holds excludes a row holding the exact pair,
\* and the decision to create is hasNewInfo alone.
NewInfoAlone(group, email, phoneNumber) ==
    /\ HasNewInfo(group, email, phoneNumber)
            => ~ExactMatch(group, email, phoneNumber)
    /\ ShouldCreateSecondary(group, email, phoneNumber)
            <=> HasNewInfo(group, email, phoneNumber)

\* C31: for every set of rows of a table between calls taken as the group
\* and every supplied pair, and for the group and the pair of every call at
\* its new-information check, hasNewInfo excludes exactMatch, so that
\* (hasNewInfo AND NOT exactMatch) equals hasNewInfo.
C31_NewInfoExcludesExactMatch ==
    /\ Idle =>
        \A group \in SUBSET Rows(contacts) :
            \A email \in Emails, phoneNumber \in Phones :
                NewInfoAlone(group, email, phoneNumber)
    /\ \A p \in Procs :
        pc[p] = "checkNewInfo" =>
            NewInfoAlone(LinkedContacts(contacts, truePrimary(p).id),
                         req[p].email, req[p].phoneNumber)

\* C31 witness: a call is at its new-information check with a group of
\* several rows that holds the supplied email, on a row with another phone,
\* and does not hold the supplied phone.
C31_Witness ==
    /\ pc["a"] = "checkNewInfo"
    /\ LET group == LinkedContacts(contacts, truePrimary("a").id)
       IN  /\ Cardinality(group) > 1
           /\ HasNewInfo(group, req["a"].email, req["a"].phoneNumber)
           /\ req["a"].phoneNumber \notin ExistingPhones(group)
           /\ \E c \in group :
                c.email = req["a"].email /\ c.phoneNumber # NULL

====
